---------------------------- MODULE Spec2Model ----------------------------
(***************************************************************************)
(* A model of the Medicly document processor                               *)
(* (RadovanWD/medicly-doc-processor).                                      *)
(*                                                                         *)
(* Strings are sequences of tokens.  A token stands for a fixed piece of   *)
(* text that the program's regular expressions and indexOf searches can    *)
(* only match as a whole (a label such as "Slug:", a word, one blank, a    *)
(* line break).  Positions are token positions; JavaScript's 0-based       *)
(* indexes are kept 1-based here, with 0 standing for the -1 of findIndex  *)
(* and indexOf.                                                            *)
(***************************************************************************)
EXTENDS Integers, Sequences, FiniteSets, TLC

VARIABLES
    \* processDocxFile / extractData (src/src/services/docProcessor.js)
    rawText,                \* result of mammoth.extractRawText
    pc,                     \* position inside processDocxFile
    lines,                  \* the non-blank lines of rawText
    seoBlockStartIndex,     \* 1-based index of the first marker line, 0 = none
    idx,                    \* loop index of the running loop
    titleFound,
    metadata,
    contentLines,
    descriptionLines,
    isParsingDescription,
    content,                \* contentLines.join('\n')
    html,                   \* processedHtml
    linkIdx,                \* the next phrase of internalLinks to wrap
    pass,                   \* 1: the first run of the post-processing, 2: a re-run
    firstOutput,            \* what the first run returned
    result,                 \* what processDocxFile returned or threw
    \* processDocxFile of the earlier variants (src/unnamed/part_000)
    variant,                \* "A": lines 119-183, "B": lines 282-329
    docHtml,                \* htmlResult.value of mammoth.convertToHtml
    title,                  \* metadata.title
    contentStartIndex,      \* 0-based, as in the code
    contentEndIndex,        \* 0-based, -1 = none
    markerIdx,              \* the marker the end-marker loop looks at next
    bodyContent,            \* content
    \* main (src/process-docs.js)
    docOf,                  \* what each file of ./doc holds
    files,                  \* docxFiles
    docDir,                 \* the files in ./doc
    sentDir,                \* the files in ./sent
    store,                  \* the rows of table blogs
    attempts,               \* the documents insertPost was called for, in order
    fileIdx,                \* the position of the for loop in docxFiles
    runPc,                  \* position inside main
    postData,               \* what processDocxFile returned for the file
    thrownMsg,              \* error.message in the catch block
    started,                \* the files handed to processDocxFile, in order
    persisted,              \* the files whose insert returned a row
    skipped,                \* the files the "Skipped" line was printed for
    consoleErrors,          \* the "Error processing" lines of logError
    errorLog,               \* the lines appended to error.log
    idleClients             \* clients released to the pool and not closed

exVars == <<rawText, lines, seoBlockStartIndex, idx, titleFound, metadata,
            contentLines, descriptionLines, isParsingDescription, content>>

ppVars == <<html, linkIdx, pass, firstOutput>>

rbVars == <<variant, docHtml, title, contentStartIndex, contentEndIndex, markerIdx,
            bodyContent>>

runVars == <<attempts, docOf, files, docDir, sentDir, store, fileIdx, runPc, postData,
             thrownMsg, started, persisted, skipped, consoleErrors, errorLog,
             idleClients>>

vars == <<exVars, ppVars, pc, result, rbVars, runVars>>

-----------------------------------------------------------------------------
(* Strings *)

\* JavaScript's undefined, for an object field that was never assigned.
Undef == <<"#undefined">>

NL == "\n"

IsWs(t) == t \in {" ", "\t"}

RECURSIVE TrimLeft(_)
TrimLeft(s) == IF s # <<>> /\ IsWs(Head(s)) THEN TrimLeft(Tail(s)) ELSE s

RECURSIVE TrimRight(_)
TrimRight(s) ==
    IF s # <<>> /\ IsWs(s[Len(s)]) THEN TrimRight(SubSeq(s, 1, Len(s) - 1)) ELSE s

\* String.prototype.trim
Trim(s) == TrimRight(TrimLeft(s))

\* The number of characters of a token.
TokLen(t) ==
    CASE t = " " -> 1
      [] t = "\t" -> 1
      [] t = NL -> 1
      [] t = "By Dr." -> 6
      [] t = "by dr." -> 6
      [] t = "Medically reviewed" -> 18
      [] t = "by our team" -> 11
      [] t = "Gurbakhshish Singh Sidhu" -> 24
      [] t = "Lee" -> 3
      [] t = "Online Medical Certificates Guide" -> 33
      [] t = "Telehealth Explained For Patients" -> 33
      [] t = "Exactly twenty chars" -> 20
      [] t = "Slug:" -> 5
      [] t = "URL Slug:" -> 9
      [] t = "Suggested URL Slug:" -> 19
      [] t = "Meta Title:" -> 11
      [] t = "Meta Description:" -> 17
      [] t = "Compelling Meta Description:" -> 28
      [] t = "Primary Keywords:" -> 17
      [] t = "my-slug" -> 7
      [] t = "My Meta Title" -> 13
      [] t = "Part one." -> 9
      [] t = "telehealth, certificate" -> 23
      [] OTHER -> 1

RECURSIVE StrLen(_)
\* String.prototype.length
StrLen(s) == IF s = <<>> THEN 0 ELSE TokLen(Head(s)) + StrLen(Tail(s))

\* The /i flag: the lower-case form of the tokens that occur in two cases.
Lower(t) ==
    CASE t = "By Dr." -> "by dr."
      [] t = "Slug:" -> "slug:"
      [] t = "URL Slug:" -> "url slug:"
      [] t = "Suggested URL Slug:" -> "suggested url slug:"
      [] t = "Meta Title:" -> "meta title:"
      [] t = "Meta Description:" -> "meta description:"
      [] t = "Compelling Meta Description:" -> "compelling meta description:"
      [] t = "Primary Keywords:" -> "primary keywords:"
      [] OTHER -> t

\* s starts with a token whose lower-case form is in set: a /^(a|b|c)/i test.
StartsWithAny(s, set) == s # <<>> /\ Lower(Head(s)) \in set

RECURSIVE SplitFrom(_, _)
\* String.prototype.split('\n'): cur is the line being read.
SplitFrom(s, cur) ==
    IF s = <<>> THEN <<cur>>
    ELSE IF Head(s) = NL THEN <<cur>> \o SplitFrom(Tail(s), <<>>)
    ELSE SplitFrom(Tail(s), Append(cur, Head(s)))

Split(s) == SplitFrom(s, <<>>)

RECURSIVE Join(_, _)
\* Array.prototype.join(sep)
Join(ls, sep) ==
    IF ls = <<>> THEN <<>>
    ELSE IF Len(ls) = 1 THEN ls[1]
    ELSE ls[1] \o <<sep>> \o Join(Tail(ls), sep)

RECURSIVE FilterNonBlank(_)
\* .filter(line => line.trim() !== '')
FilterNonBlank(ls) ==
    IF ls = <<>> THEN <<>>
    ELSE IF Trim(Head(ls)) # <<>> THEN <<Head(ls)>> \o FilterNonBlank(Tail(ls))
    ELSE FilterNonBlank(Tail(ls))

-----------------------------------------------------------------------------
(* extractData: the patterns *)

\* seoMarkers, docProcessor.js line 17 (lower-cased, /i)
SeoMarkers == {"seo & meta details", "blog post:", "meta data", "1. meta data",
               "meta title:", "slug:", "url slug:"}

\* seoPatterns, docProcessor.js lines 40-45
SlugLabels == {"slug:", "slugx:", "url slug:", "suggested url slug:"}
MetaTitleLabels == {"meta title:", "optimized meta title:"}
MetaDescriptionLabels == {"meta description:", "compelling meta description:"}
KeywordsLabels == {"primary keywords:"}

\* seoMarkers.test(line): on the line as it is, not trimmed
IsSeoMarker(line) == StartsWithAny(line, SeoMarkers)

\* /^By Dr\./i.test(line)
IsByline(line) == StartsWithAny(line, {"by dr."})

\* line.includes('Medically reviewed'): case-sensitive
IncludesReviewed(line) == \E k \in 1..Len(line) : line[k] = "Medically reviewed"

\* lines.findIndex(line => seoMarkers.test(line)), 0 when there is none
FindSeoStart(ls) ==
    IF \E k \in 1..Len(ls) : IsSeoMarker(ls[k])
    THEN CHOOSE k \in 1..Len(ls) :
            IsSeoMarker(ls[k]) /\ \A m \in 1..(k - 1) : ~IsSeoMarker(ls[m])
    ELSE 0

\* trimmedLine.replace(pattern, '').trim(), for a line the pattern matches
FieldValue(trimmedLine) == Trim(Tail(trimmedLine))

TitleMinLength == 20

\* A mutant of IsTitleLine: the !titleFound guard is lost.
IsTitleLineUnguarded(found, line) ==
    StrLen(line) > TitleMinLength /\ ~IncludesReviewed(line)

\* The second branch of the first loop, docProcessor.js line 26
IsTitleLine(found, line) ==
    ~found /\ StrLen(line) > TitleMinLength /\ ~IncludesReviewed(line)

\* A mutant of Falsy: a test for undefined only.
FalsyOnlyUndefined(v) == v = Undef

\* !metadata.x: undefined and the empty string are both falsy
Falsy(v) == v = Undef \/ v = <<>>

NoMetadata ==
    [title |-> Undef, author |-> Undef, slug |-> Undef, metaTitle |-> Undef,
     metaDescription |-> Undef, keywords |-> Undef]

NoResult == [status |-> "none", error |-> "none", record |-> NoMetadata, content |-> <<>>]

Thrown(e) == [status |-> "thrown", error |-> e, record |-> NoMetadata, content |-> <<>>]

\* A mutant of ValidationError: the SEO fields are checked before the title.
ValidationErrorSeoFirst(md) ==
    IF md.slug = Undef \/ md.slug = <<>> THEN "Slug could not be found"
    ELSE IF md.metaTitle = Undef \/ md.metaTitle = <<>> THEN "Meta Title could not be found"
    ELSE IF md.title = Undef \/ md.title = <<>> THEN "Title could not be determined"
    ELSE "none"

\* The final validation of extractData, docProcessor.js lines 72-80:
\* the error it throws, "none" when it throws nothing.
ValidationError(md) ==
    IF Falsy(md.title) THEN "Title could not be determined"
    ELSE IF Falsy(md.slug) THEN "Slug could not be found"
    ELSE IF Falsy(md.metaTitle) THEN "Meta Title could not be found"
    ELSE "none"

\* The end of the first loop: seoBlockStartIndex === -1 ? lines.length : seoBlockStartIndex
\* A mutant of TopLimit: the first loop runs over every line.
TopLimitAllLines(ls, seo) == Len(ls)

TopLimit(ls, seo) == IF seo = 0 THEN Len(ls) ELSE seo - 1

-----------------------------------------------------------------------------
(* generateAndProcessHtml: the link wrapping and the CTA class *)

\* HTML is a sequence of tokens too.  A tag is split where the patterns look:
\* "<a href=" holds the characters "<a", ">" is the only token that holds
\* a ">", and the double quote is a token of its own.
Quote == "\""
AOpen == "<a href="
AClose == "</a"
Gt == ">"
SiteBase == "https://medicly.com.au/"
ClassCta == " class=\"blog_cta\""

\* The /i flag on the phrases.
LowerHtml(t) ==
    CASE t = "Certificates" -> "certificates"
      [] t = "Online " -> "online "
      [] OTHER -> t

\* internalLinks with its phrases, in the order the two forEach loops visit
\* them, docProcessor.js lines 109-118.  path is the url after SiteBase.
InternalLinks ==
    << [phrase |-> <<"online ", "prescription">>, path |-> "prescriptions"],
       [phrase |-> <<"online ", "prescription", "s">>, path |-> "prescriptions"],
       [phrase |-> <<"doctor consultation">>, path |-> "doctor-consultation"],
       [phrase |-> <<"online ", "doctor consultation">>, path |-> "doctor-consultation"],
       [phrase |-> <<"certificates">>, path |-> "certificates"] >>

\* The phrase matches the text that starts at position i, case-insensitively.
PhraseAt(s, i, phrase) ==
    /\ i + Len(phrase) - 1 <= Len(s)
    /\ \A k \in 1..Len(phrase) : LowerHtml(s[i + k - 1]) = phrase[k]

\* (?<!<a[^>]*>) fails at i: the text before position i ends with a match
\* of <a[^>]*>, that is with a ">" that closes an "<a" with no other ">" between.
AnchorOpensBefore(s, i) ==
    /\ i >= 3
    /\ s[i - 1] = Gt
    /\ \E j \in 1..(i - 2) :
          /\ s[j] = AOpen
          /\ \A k \in (j + 1)..(i - 2) : s[k] # Gt

\* (?!<\/a>) fails at e: the text from position e on starts with "</a>".
AnchorClosesAt(s, e) == e + 1 <= Len(s) /\ s[e] = AClose /\ s[e + 1] = Gt

\* The regular expression of docProcessor.js line 120 matches at position i.
LinkRegexMatches(s, i, phrase) ==
    /\ PhraseAt(s, i, phrase)
    /\ ~AnchorOpensBefore(s, i)
    /\ ~AnchorClosesAt(s, i + Len(phrase))

\* `<a href="${link.url}">${phrase}</a>`, docProcessor.js line 121
Anchor(link) ==
    <<AOpen, Quote, SiteBase, link.path, Quote, Gt>> \o link.phrase \o <<AClose, Gt>>

RECURSIVE ReplaceLinks(_, _, _)
\* processedHtml.replace(regex, anchor) with the g flag, from position i on:
\* the lookarounds read the string being searched, not what was replaced.
ReplaceLinks(s, i, link) ==
    IF i > Len(s) THEN <<>>
    ELSE IF LinkRegexMatches(s, i, link.phrase)
    THEN Anchor(link) \o ReplaceLinks(s, i + Len(link.phrase), link)
    ELSE <<s[i]>> \o ReplaceLinks(s, i + 1, link)

HasQuote(t) == t \in {Quote, ClassCta}

\* The first position from i on whose token holds a double quote, 0 if none.
NextQuote(s, i) ==
    IF \E j \in i..Len(s) : HasQuote(s[j])
    THEN CHOOSE j \in i..Len(s) : HasQuote(s[j]) /\ \A k \in i..(j - 1) : ~HasQuote(s[k])
    ELSE 0

\* /(<a href="https:\/\/medicly.com.au\/[^"]*")>/ matches at position i:
\* the position of its closing quote, 0 when it does not match.
CtaMatchEnd(s, i) ==
    IF i + 2 <= Len(s) /\ s[i] = AOpen /\ s[i + 1] = Quote /\ s[i + 2] = SiteBase
    THEN LET q == NextQuote(s, i + 3)
         IN IF q # 0 /\ s[q] = Quote /\ q + 1 <= Len(s) /\ s[q + 1] = Gt THEN q ELSE 0
    ELSE 0

RECURSIVE AddCtaClass(_, _)
\* The replace of docProcessor.js lines 126-129, from position i on.
AddCtaClass(s, i) ==
    IF i > Len(s) THEN <<>>
    ELSE LET q == CtaMatchEnd(s, i)
         IN IF q # 0
            THEN SubSeq(s, i, q) \o <<ClassCta, Gt>> \o AddCtaClass(s, q + 2)
            ELSE <<s[i]>> \o AddCtaClass(s, i + 1)

\* The number of anchors open after the first n tokens of s.
RECURSIVE AnchorDepth(_, _)
AnchorDepth(s, n) ==
    IF n = 0 THEN 0
    ELSE AnchorDepth(s, n - 1)
         + (IF s[n] = AOpen THEN 1 ELSE IF s[n] = AClose THEN -1 ELSE 0)

-----------------------------------------------------------------------------
(* The documents the model reads *)

MaxLines == 4

LinePool ==
    { <<"Online Medical Certificates Guide">>,
      <<" ", "Telehealth Explained For Patients">>,
      <<"Exactly twenty chars">>,
      <<"By Dr.", " ", "Gurbakhshish Singh Sidhu">>,
      <<"by dr.", " ", "Lee">>,
      <<"Medically reviewed", " ", "by our team">>,
      <<"URL Slug:", " ", "my-slug">>,
      <<"Slug:">>,
      <<"Meta Title:", " ", "My Meta Title">>,
      <<"Meta Title:", " ">>,
      <<"Meta Description:", " ", "Part one.">>,
      <<"Compelling Meta Description:">>,
      <<"Primary Keywords:", " ", "telehealth, certificate">> }

RECURSIVE Paragraphs(_)
\* mammoth's raw text: every paragraph followed by two line breaks
Paragraphs(ls) ==
    IF ls = <<>> THEN <<>> ELSE Head(ls) \o <<NL, NL>> \o Paragraphs(Tail(ls))

Documents == UNION { [1..n -> LinePool] : n \in 0..MaxLines }

-----------------------------------------------------------------------------
(* processDocxFile, docProcessor.js *)

\* The post-processing variables before generateAndProcessHtml runs.
PostIdle ==
    /\ html = <<>>
    /\ linkIdx = 0
    /\ pass = 1
    /\ firstOutput = <<>>

\* The extraction variables before extractData runs.
ExtractIdle ==
    /\ lines = <<>>
    /\ seoBlockStartIndex = 0
    /\ idx = 0
    /\ titleFound = FALSE
    /\ metadata = NoMetadata
    /\ contentLines = <<>>
    /\ descriptionLines = <<>>
    /\ isParsingDescription = FALSE
    /\ content = <<>>

\* The variables of the earlier variants, unused.
ResolveIdle ==
    /\ variant = "none"
    /\ docHtml = <<>>
    /\ title = <<>>
    /\ contentStartIndex = 0
    /\ contentEndIndex = -1
    /\ markerIdx = 0
    /\ bodyContent = <<>>

\* The variables of main, unused.
RunIdle ==
    /\ docOf = <<>>
    /\ files = <<>>
    /\ docDir = {}
    /\ sentDir = {}
    /\ store = {}
    /\ attempts = <<>>
    /\ fileIdx = 0
    /\ runPc = "idle"
    /\ postData = NoMetadata
    /\ thrownMsg = "none"
    /\ started = <<>>
    /\ persisted = {}
    /\ skipped = {}
    /\ consoleErrors = {}
    /\ errorLog = {}
    /\ idleClients = 0

Init ==
    /\ rawText \in { Paragraphs(d) : d \in Documents }
    /\ pc = "extractRawText"
    /\ ExtractIdle
    /\ PostIdle
    /\ result = NoResult
    /\ ResolveIdle
    /\ RunIdle

\* processDocxFile lines 136-137: the renderer returns the raw text, or rejects
ExtractRawText ==
    /\ pc = "extractRawText"
    /\ \/ /\ pc' = "extractData"
          /\ UNCHANGED result
       \/ /\ pc' = "done"
          /\ result' = Thrown("extractRawText rejected")
    /\ UNCHANGED <<exVars, ppVars>>
    /\ UNCHANGED <<rbVars, runVars>>

\* After the first loop: the SEO loop when there is a block, else validation.
AfterTop(seo) == IF seo = 0 THEN "validate" ELSE "seoLoop"

\* extractData lines 11-18: split, filter, find the SEO block
SplitLines ==
    /\ pc = "extractData"
    /\ LET ls == FilterNonBlank(Split(rawText))
           seo == FindSeoStart(ls)
       IN /\ lines' = ls
          /\ seoBlockStartIndex' = seo
          /\ idx' = IF TopLimit(ls, seo) >= 1 THEN 1 ELSE seo
          /\ pc' = IF TopLimit(ls, seo) >= 1 THEN "topLoop" ELSE AfterTop(seo)
    /\ UNCHANGED <<rawText, titleFound, metadata, contentLines, descriptionLines,
                   isParsingDescription, content, ppVars, result>>
    /\ UNCHANGED <<rbVars, runVars>>

\* extractData lines 22-32: one iteration of the first loop
TopMatterStep ==
    /\ pc = "topLoop"
    /\ LET line == Trim(lines[idx])
           limit == TopLimit(lines, seoBlockStartIndex)
       IN /\ IF IsByline(line)
             THEN /\ metadata' = [metadata EXCEPT !.author = line]
                  /\ UNCHANGED <<titleFound, contentLines>>
             ELSE IF IsTitleLine(titleFound, line)
             THEN /\ metadata' = [metadata EXCEPT !.title = line]
                  /\ titleFound' = TRUE
                  /\ UNCHANGED contentLines
             ELSE IF titleFound
             THEN /\ contentLines' = Append(contentLines, lines[idx])
                  /\ UNCHANGED <<metadata, titleFound>>
             ELSE UNCHANGED <<metadata, titleFound, contentLines>>
          /\ IF idx + 1 <= limit
             THEN /\ idx' = idx + 1
                  /\ pc' = "topLoop"
             ELSE /\ idx' = seoBlockStartIndex
                  /\ pc' = AfterTop(seoBlockStartIndex)
    /\ UNCHANGED <<rawText, lines, seoBlockStartIndex, descriptionLines,
                   isParsingDescription, content, ppVars, result>>
    /\ UNCHANGED <<rbVars, runVars>>

\* extractData lines 47-64: one iteration of the forEach over seoLines
SeoStep ==
    /\ pc = "seoLoop"
    /\ LET trimmedLine == Trim(lines[idx])
       IN IF StartsWithAny(trimmedLine, SlugLabels)
          THEN /\ isParsingDescription' = FALSE
               /\ metadata' = [metadata EXCEPT !.slug = FieldValue(trimmedLine)]
               /\ UNCHANGED descriptionLines
          ELSE IF StartsWithAny(trimmedLine, MetaTitleLabels)
          THEN /\ isParsingDescription' = FALSE
               /\ metadata' = [metadata EXCEPT !.metaTitle = FieldValue(trimmedLine)]
               /\ UNCHANGED descriptionLines
          ELSE IF StartsWithAny(trimmedLine, MetaDescriptionLabels)
          THEN /\ isParsingDescription' = TRUE
               /\ descriptionLines' = Append(descriptionLines, FieldValue(trimmedLine))
               /\ UNCHANGED metadata
          ELSE IF StartsWithAny(trimmedLine, KeywordsLabels)
          THEN /\ isParsingDescription' = FALSE
               /\ metadata' = [metadata EXCEPT !.keywords = FieldValue(trimmedLine)]
               /\ UNCHANGED descriptionLines
          ELSE IF isParsingDescription
          THEN /\ descriptionLines' = Append(descriptionLines, trimmedLine)
               /\ UNCHANGED <<metadata, isParsingDescription>>
          ELSE UNCHANGED <<metadata, isParsingDescription, descriptionLines>>
    /\ IF idx + 1 <= Len(lines)
       THEN /\ idx' = idx + 1
            /\ pc' = "seoLoop"
       ELSE /\ idx' = idx
            /\ pc' = "validate"
    /\ UNCHANGED <<rawText, lines, seoBlockStartIndex, titleFound, contentLines,
                   content, ppVars, result>>
    /\ UNCHANGED <<rbVars, runVars>>

\* A mutant of WithDescription: the trim after the join is lost.
WithDescriptionUntrimmed(md, descs) ==
    IF Len(descs) > 0
    THEN [md EXCEPT !.metaDescription = Join(descs, " ")]
    ELSE md

\* extractData lines 66-68: the description, when any line was collected
WithDescription(md, descs) ==
    IF Len(descs) > 0
    THEN [md EXCEPT !.metaDescription = Trim(Join(descs, " "))]
    ELSE md

\* extractData lines 66-83: join the description, validate, join the content
Validate ==
    /\ pc = "validate"
    /\ LET md == WithDescription(metadata, descriptionLines)
           err == ValidationError(md)
       IN /\ metadata' = md
          /\ IF err # "none"
             THEN /\ result' = Thrown(err)
                  /\ pc' = "done"
                  /\ UNCHANGED content
             ELSE /\ content' = Join(contentLines, NL)
                  /\ pc' = "render"
                  /\ UNCHANGED result
    /\ UNCHANGED <<rawText, lines, seoBlockStartIndex, idx, titleFound, contentLines,
                   descriptionLines, isParsingDescription, ppVars>>
    /\ UNCHANGED <<rbVars, runVars>>

\* What the renderer may return for a non-empty content.
RenderedBodies ==
    { <<"<p", Gt, "Body text.", "</p", Gt>>,
      <<"<p", Gt, "See our ", "certificates", "</p", Gt>> }

\* mammoth.convert: an empty document renders to the empty string.
Rendered(text) == IF text = <<>> THEN {<<>>} ELSE RenderedBodies

\* generateAndProcessHtml lines 95-106: the renderer returns HTML, or rejects
Render ==
    /\ pc = "render"
    /\ \/ /\ html' \in Rendered(content)
          /\ linkIdx' = 1
          /\ pc' = "linkLoop"
          /\ UNCHANGED result
       \/ /\ pc' = "done"
          /\ result' = Thrown("convert rejected")
          /\ UNCHANGED <<html, linkIdx>>
    /\ UNCHANGED <<exVars, pass, firstOutput>>
    /\ UNCHANGED <<rbVars, runVars>>

\* generateAndProcessHtml lines 117-123: one phrase of the two forEach loops
WrapPhrase ==
    /\ pc = "linkLoop"
    /\ html' = ReplaceLinks(html, 1, InternalLinks[linkIdx])
    /\ IF linkIdx + 1 <= Len(InternalLinks)
       THEN /\ linkIdx' = linkIdx + 1
            /\ pc' = "linkLoop"
       ELSE /\ linkIdx' = linkIdx
            /\ pc' = "ctaClass"
    /\ UNCHANGED <<exVars, pass, firstOutput, result>>
    /\ UNCHANGED <<rbVars, runVars>>

\* generateAndProcessHtml lines 126-131 and processDocxFile line 146:
\* the CTA class, and the return of the record
AddCta ==
    /\ pc = "ctaClass"
    /\ LET out == AddCtaClass(html, 1)
       IN /\ html' = out
          /\ firstOutput' = IF pass = 1 THEN out ELSE firstOutput
          /\ result' = [status |-> "returned", error |-> "none",
                        record |-> metadata, content |-> out]
    /\ pc' = "done"
    /\ UNCHANGED <<exVars, linkIdx, pass>>
    /\ UNCHANGED <<rbVars, runVars>>

Next ==
    \/ ExtractRawText
    \/ SplitLines
    \/ TopMatterStep
    \/ SeoStep
    \/ Validate
    \/ Render
    \/ WrapPhrase
    \/ AddCta

Spec == Init /\ [][Next]_vars

-----------------------------------------------------------------------------
(* The post-processing on its own, and run again on what it returned *)

MaxChunks == 3

ExternalUrl == "https://example.org/page"

\* The pieces of rendered HTML the bodies are made of.
ChunkPool ==
    { <<"See our ">>,
      <<"certificates">>,
      <<"Certificates">>,
      <<"online ", "prescription">>,
      <<"online ", "prescription", "s">>,
      <<"doctor consultation">>,
      <<"<p", Gt>>,
      <<"</p", Gt>>,
      \* a link of the document whose text is a phrase
      <<AOpen, Quote, ExternalUrl, Quote, Gt, "certificates", AClose, Gt>>,
      \* a link of the document with a phrase in the middle of its text
      <<AOpen, Quote, ExternalUrl, Quote, Gt, "See our ", "online ", "prescription",
        " today", AClose, Gt>> }

RECURSIVE Concat(_)
Concat(cs) == IF cs = <<>> THEN <<>> ELSE Head(cs) \o Concat(Tail(cs))

HtmlBodies == { Concat(cs) : cs \in UNION { [1..n -> ChunkPool] : n \in 0..MaxChunks } }

InitPost ==
    /\ rawText = <<>>
    /\ ExtractIdle
    /\ html \in HtmlBodies
    /\ linkIdx = 1
    /\ pass = 1
    /\ firstOutput = <<>>
    /\ pc = "linkLoop"
    /\ result = NoResult
    /\ ResolveIdle
    /\ RunIdle

\* generateAndProcessHtml's link and class steps run on their own output
Reapply ==
    /\ pc = "done"
    /\ pass = 1
    /\ result.status = "returned"
    /\ pass' = 2
    /\ linkIdx' = 1
    /\ pc' = "linkLoop"
    /\ UNCHANGED <<exVars, html, firstOutput, result>>
    /\ UNCHANGED <<rbVars, runVars>>

NextPost ==
    \/ WrapPhrase
    \/ AddCta
    \/ Reapply

SpecPost == InitPost /\ [][NextPost]_vars

-----------------------------------------------------------------------------
(* The earlier variants of processDocxFile, part_000: the body is cut out   *)
(* of the rendered HTML.  Offsets are 0-based and -1 means "not found", as  *)
(* in the code.                                                             *)

MinOf(S) == CHOOSE x \in S : \A y \in S : x <= y
MaxOf(S) == CHOOSE x \in S : \A y \in S : x >= y

\* pat occurs in s at offset i
OccursAt(s, i, pat) ==
    /\ i >= 0
    /\ i + Len(pat) <= Len(s)
    /\ \A k \in 1..Len(pat) : s[i + k] = pat[k]

\* s.indexOf(pat, from)
IndexOf(s, pat, from) ==
    LET found == { i \in 0..Len(s) : i >= from /\ OccursAt(s, i, pat) }
    IN IF found = {} THEN -1 ELSE MinOf(found)

\* s.lastIndexOf(pat)
LastIndexOf(s, pat) ==
    LET found == { i \in 0..Len(s) : OccursAt(s, i, pat) }
    IN IF found = {} THEN -1 ELSE MaxOf(found)

\* The tokens that start with "<", and those that start with "</".
StartsWithLt(t) == t \in {"<p", "</p", "<h1", "</h1", "<strong", "</strong", AOpen, AClose}
StartsWithLtSlash(t) == t \in {"</p", "</h1", "</strong", AClose}

\* html.indexOf('</', from)
IndexOfClosingTag(s, from) ==
    LET found == { i \in 0..(Len(s) - 1) : i >= from /\ StartsWithLtSlash(s[i + 1]) }
    IN IF found = {} THEN -1 ELSE MinOf(found)

\* html.indexOf('>', from)
IndexOfGt(s, from) ==
    LET found == { i \in 0..(Len(s) - 1) : i >= from /\ s[i + 1] = Gt }
    IN IF found = {} THEN -1 ELSE MinOf(found)

\* html.lastIndexOf('<', from)
LastIndexOfLt(s, from) ==
    LET found == { i \in 0..(Len(s) - 1) : i <= from /\ StartsWithLt(s[i + 1]) }
    IN IF found = {} THEN -1 ELSE MaxOf(found)

Clamp(i, n) == IF i < 0 THEN 0 ELSE IF i > n THEN n ELSE i

\* s.substring(a, b): the arguments are clamped to 0..length and swapped
\* when the first is the larger.
Substring(s, a, b) ==
    LET x == Clamp(a, Len(s))
        y == Clamp(b, Len(s))
    IN IF x <= y THEN SubSeq(s, x + 1, y) ELSE SubSeq(s, y + 1, x)

\* endMarkers, part_000 lines 131-138
EndMarkersA ==
    << <<"Always consult your healthcare provider for personal medical concerns.">>,
       <<"Okay, I have the full, updated blog post content.">>,
       <<"[Discover All Medicly Telehealth Services Here!]">>,
       <<"SEO & Meta Data for:">>,
       <<"Blog Post:", " How to Quickly Obtain an Online Medical Certificate">>,
       <<"Meta Title:">> >>

\* seoBlockMarkers, part_000 line 302
EndMarkersB ==
    << <<"Meta Title:">>, <<"SEO & Meta Details">>, <<"Blog Post:">>, <<"1. Meta Data">> >>

EndMarkers(v) == IF v = "A" THEN EndMarkersA ELSE EndMarkersB

\* A mutant of TitleMissing: the -1 of indexOf goes unnoticed.
TitleMissingIgnored(h, t) == FALSE

\* html.indexOf(title) === -1, part_000 lines 140-141 and 293-294
TitleMissing(h, t) == IndexOf(h, t, 0) = -1

\* internalLinks of postProcessHtml, part_000 lines 103-108 and 266-271
InternalLinksEarlier ==
    << [phrase |-> <<"online ", "prescription">>, path |-> "prescriptions"],
       [phrase |-> <<"doctor consultation">>, path |-> "doctor-consultation"],
       [phrase |-> <<"online ", "doctor consultation">>, path |-> "doctor-consultation"],
       [phrase |-> <<"certificates">>, path |-> "certificates"] >>

RECURSIVE ReplaceLinksKeepingText(_, _, _)
\* processedHtml.replace(regex, `<a href="${link.url}">$1</a>`), part_000
\* lines 111-112: the anchor holds the text that matched.
ReplaceLinksKeepingText(s, i, link) ==
    IF i > Len(s) THEN <<>>
    ELSE IF LinkRegexMatches(s, i, link.phrase)
    THEN <<AOpen, Quote, SiteBase, link.path, Quote, Gt>>
            \o SubSeq(s, i, i + Len(link.phrase) - 1) \o <<AClose, Gt>>
            \o ReplaceLinksKeepingText(s, i + Len(link.phrase), link)
    ELSE <<s[i]>> \o ReplaceLinksKeepingText(s, i + 1, link)

RECURSIVE WrapAllEarlier(_, _)
\* internalLinks.forEach, part_000 lines 110-113, from rule k on
WrapAllEarlier(s, k) ==
    IF k > Len(InternalLinksEarlier) THEN s
    ELSE WrapAllEarlier(ReplaceLinksKeepingText(s, 1, InternalLinksEarlier[k]), k + 1)

\* /(<p><strong><a href="[^"]*")>/ matches at position i: the position of
\* its closing quote, 0 when it does not match.
StrongCtaMatchEnd(s, i) ==
    IF /\ i + 5 <= Len(s)
       /\ SubSeq(s, i, i + 5) = <<"<p", Gt, "<strong", Gt, AOpen, Quote>>
    THEN LET q == NextQuote(s, i + 6)
         IN IF q # 0 /\ s[q] = Quote /\ q + 1 <= Len(s) /\ s[q + 1] = Gt THEN q ELSE 0
    ELSE 0

RECURSIVE AddStrongCtaClass(_, _)
\* The replace of part_000 line 115, from position i on.
AddStrongCtaClass(s, i) ==
    IF i > Len(s) THEN <<>>
    ELSE LET q == StrongCtaMatchEnd(s, i)
         IN IF q # 0
            THEN SubSeq(s, i, q) \o <<ClassCta, Gt>> \o AddStrongCtaClass(s, q + 2)
            ELSE <<s[i]>> \o AddStrongCtaClass(s, i + 1)

\* postProcessHtml, part_000 lines 101-117 and 264-280
PostProcessHtml(s) == AddStrongCtaClass(WrapAllEarlier(s, 1), 1)

MaxParts == 4

\* The pieces of rendered HTML the documents are made of.
PartPool ==
    { <<"<h1", Gt, "My Title", "</h1", Gt>>,
      <<"<p", Gt, "Body text.", "</p", Gt>>,
      <<"<p", Gt, "Meta Title:", " X", "</p", Gt>>,
      <<"<p", Gt, "Always consult your healthcare provider for personal medical concerns.",
        "</p", Gt>>,
      <<"<p", Gt, "<strong", Gt, "My Title", "</strong", Gt, " ", "Meta Title:", " X",
        "</p", Gt>>,
      <<"<p", Gt, "Blog Post:", " How to Quickly Obtain an Online Medical Certificate",
        "</p", Gt>> }

RenderedDocuments ==
    { Concat(cs) : cs \in UNION { [1..n -> PartPool] : n \in 0..MaxParts } }

InitResolve ==
    /\ rawText = <<>>
    /\ ExtractIdle
    /\ PostIdle
    /\ RunIdle
    /\ result = NoResult
    /\ pc = "findStart"
    /\ variant \in {"A", "B"}
    /\ docHtml \in RenderedDocuments
    /\ title \in {<<"My Title">>, <<"Another Title">>}
    /\ contentStartIndex = 0
    /\ contentEndIndex = -1
    /\ markerIdx = 0
    /\ bodyContent = <<>>

\* part_000 lines 140-151 (variant A) and 293-299 (variant B)
FindStart ==
    /\ pc = "findStart"
    /\ IF TitleMissing(docHtml, title)
       THEN /\ pc' = "done"
            /\ result' = Thrown(IF variant = "A"
                                THEN "Could not find the start of the content after the title."
                                ELSE "Could not find title in HTML to determine content start.")
            /\ UNCHANGED <<contentStartIndex, markerIdx>>
       ELSE /\ LET t == IndexOf(docHtml, title, 0)
                   closing == IndexOfClosingTag(docHtml, t + Len(title))
                   endA == IF closing # -1 THEN IndexOfGt(docHtml, closing) ELSE -1
                   endB == IndexOfGt(docHtml, t)
                   end == IF variant = "A" THEN endA ELSE endB
               IN contentStartIndex' = IF end # -1 THEN end + 1 ELSE t
            /\ markerIdx' = 1
            /\ pc' = "endScan"
            /\ UNCHANGED result
    /\ UNCHANGED <<variant, docHtml, title, contentEndIndex, bodyContent>>
    /\ UNCHANGED <<exVars, ppVars, runVars>>

\* The loop over the markers goes on with the next marker, or ends.
NextMarker ==
    IF markerIdx < Len(EndMarkers(variant))
    THEN /\ markerIdx' = markerIdx + 1
         /\ pc' = "endScan"
    ELSE /\ markerIdx' = markerIdx
         /\ pc' = "cut"

\* One iteration of the loop over the markers:
\* part_000 lines 154-163 (variant A) and 305-311 (variant B)
ScanMarker ==
    /\ pc = "endScan"
    /\ LET at == LastIndexOf(docHtml, EndMarkers(variant)[markerIdx])
           openingTagIndex == LastIndexOfLt(docHtml, at)
       IN IF variant = "A"
          THEN IF at > contentStartIndex /\ openingTagIndex # -1
               THEN /\ bodyContent' =
                          Trim(Substring(docHtml, contentStartIndex, openingTagIndex))
                    /\ contentEndIndex' = at
                    /\ pc' = "cut"
                    /\ UNCHANGED markerIdx
               ELSE /\ NextMarker
                    /\ UNCHANGED <<bodyContent, contentEndIndex>>
          ELSE IF at > contentStartIndex
               THEN /\ contentEndIndex' = at
                    /\ pc' = "cut"
                    /\ UNCHANGED <<markerIdx, bodyContent>>
               ELSE /\ NextMarker
                    /\ UNCHANGED <<bodyContent, contentEndIndex>>
    /\ UNCHANGED <<variant, docHtml, title, contentStartIndex, result>>
    /\ UNCHANGED <<exVars, ppVars, runVars>>

\* The fallback of variant A, part_000 lines 165-174: what content becomes.
FallbackContent(h, start, current) ==
    IF current # <<>> THEN current
    ELSE LET seoBlockHtmlStart == IndexOf(h, <<"Meta Title:">>, 0)
             openingTagIndex == LastIndexOfLt(h, seoBlockHtmlStart)
         IN IF seoBlockHtmlStart > start /\ openingTagIndex # -1
            THEN Trim(Substring(h, start, openingTagIndex))
            ELSE <<>>

\* The cut of variant B, part_000 lines 313-320: what content becomes.
CutContent(h, start, end) ==
    LET openingTagIndex == IF end # -1 THEN LastIndexOfLt(h, end) ELSE -1
        cut == IF openingTagIndex # -1 THEN Substring(h, 0, openingTagIndex) ELSE h
    IN Trim(Substring(cut, start, Len(cut)))

\* part_000 lines 165-178 (variant A) and 313-324 (variant B)
CutBody ==
    /\ pc = "cut"
    /\ LET c == IF variant = "A"
                THEN FallbackContent(docHtml, contentStartIndex, bodyContent)
                ELSE CutContent(docHtml, contentStartIndex, contentEndIndex)
       IN /\ bodyContent' = c
          /\ IF c = <<>>
             THEN /\ pc' = "done"
                  /\ result' = Thrown(IF variant = "A"
                        THEN "Could not determine content boundaries. No known end pattern matched."
                        ELSE "Could not extract the main content from the document.")
             ELSE /\ pc' = "postProcess"
                  /\ UNCHANGED result
    /\ UNCHANGED <<variant, docHtml, title, contentStartIndex, contentEndIndex, markerIdx>>
    /\ UNCHANGED <<exVars, ppVars, runVars>>

\* part_000 lines 180-182 and 326-328
PostProcessBody ==
    /\ pc = "postProcess"
    /\ html' = PostProcessHtml(bodyContent)
    /\ result' = [status |-> "returned", error |-> "none", record |-> NoMetadata,
                  content |-> PostProcessHtml(bodyContent)]
    /\ pc' = "done"
    /\ UNCHANGED <<exVars, linkIdx, pass, firstOutput, rbVars, runVars>>

NextResolve ==
    \/ FindStart
    \/ ScanMarker
    \/ CutBody
    \/ PostProcessBody

SpecResolve == InitResolve /\ [][NextResolve]_vars

-----------------------------------------------------------------------------
(* The orchestrator: main of process-docs.js (V4), with logError of         *)
(* logger.js and insertPost, closePool and the pool's error handler of      *)
(* database.js.  One action per await.  A file name is its stem followed by *)
(* its extension.                                                           *)

MaxFiles == 3

AllFileNames ==
    << <<"a", ".docx">>, <<"b", ".DOCX">>, <<"c", ".docx">>, <<"d", ".docx">>,
       <<"e", ".docx">> >>

\* Entries of ./doc that are no documents.
OtherEntries == << <<"~$a", ".docx">>, <<"notes", ".txt">> >>

NotAvailable == <<"N/A">>

\* path.extname(file).toLowerCase() === '.docx' && !file.startsWith('~'),
\* process-docs.js line 46
IsDocxFile(file) ==
    /\ file[Len(file)] \in {".docx", ".DOCX", ".Docx"}
    /\ file[1] \notin {"~$a", "~"}

\* files.filter(...), process-docs.js lines 45-47
DocxFiles(listing) == SelectSeq(listing, IsDocxFile)

\* What processDocxFile does with a document: it returns a record or throws.
Post(slug) ==
    [status |-> "returned", error |-> "none",
     record |-> [NoMetadata EXCEPT !.title = <<"A Title of More Than Twenty Chars">>,
                                   !.slug = slug,
                                   !.metaTitle = <<"My Meta Title">>],
     content |-> <<"<p", Gt, "Body text.", "</p", Gt>>]

DocOutcomes ==
    { Post(<<"slug-a">>), Post(<<"slug-b">>),
      Thrown("Validation failed: Could not parse a valid Title.") }

\* The rows of table blogs that earlier runs left: id, slug and the rest of
\* the record, of which the title stands for all columns.
StoredBefore ==
    { [id |-> 1, slug |-> <<"slug-a">>, title |-> <<"A Title Stored by an Earlier Run">>] }

\* A mutant of SlugTaken: no conflict is ever seen.
SlugNeverTaken(rows, slug) == FALSE

\* ON CONFLICT (slug), database.js line 42: a row with this slug exists.
SlugTaken(rows, slug) == \E row \in rows : row.slug = slug

\* The row that INSERT adds, database.js lines 36-43: id is a serial.
NewRow(rows, record) ==
    [id |-> Cardinality(rows) + 1, slug |-> record.slug, title |-> record.title]

StaleLine == [file |-> <<"old", ".docx">>, message |-> "an error of the run before"]

InitRun ==
    /\ rawText = <<>>
    /\ ExtractIdle
    /\ PostIdle
    /\ ResolveIdle
    /\ result = NoResult
    /\ pc = "main"
    /\ \E n \in 0..MaxFiles :
         /\ docDir = OtherEntries \o SubSeq(AllFileNames, 1, n)
         /\ docOf \in [1..n -> DocOutcomes]
    /\ files = <<>>
    /\ sentDir = {}
    /\ store = StoredBefore
    /\ attempts = <<>>
    /\ fileIdx = 0
    /\ runPc = "start"
    /\ postData = NoMetadata
    /\ thrownMsg = "none"
    /\ started = <<>>
    /\ persisted = {}
    /\ skipped = {}
    /\ consoleErrors = {}
    /\ errorLog = {StaleLine}
    /\ idleClients = 0

Untouched == UNCHANGED <<exVars, ppVars, rbVars, pc, result>>

\* process-docs.js lines 39-41: clearErrorLog, which may fail to unlink the
\* log, and ensureSentDirectoryExists, which ends the process on failure.
Start ==
    /\ runPc = "start"
    /\ \E unlinked \in BOOLEAN : errorLog' = IF unlinked THEN {} ELSE errorLog
    /\ \E made \in BOOLEAN : runPc' = IF made THEN "readdir" ELSE "exit(1)"
    /\ UNCHANGED <<attempts, docOf, files, docDir, sentDir, store, fileIdx, postData, thrownMsg,
                   started, persisted, skipped, consoleErrors, idleClients>>
    /\ Untouched

\* logError up to its await, logger.js lines 12-17: the line goes to the
\* console in the turn that caught the error.
LogErrorConsole(fileName, message) ==
    consoleErrors' = consoleErrors \cup {[file |-> fileName, message |-> message]}

\* await fs.appendFile(LOG_FILE, logMessage), logger.js lines 20-23: the line
\* goes to the log file unless the append fails.
LogErrorAppend(fileName, message) ==
    \E appended \in BOOLEAN :
        errorLog' = IF appended
                    THEN errorLog \cup {[file |-> fileName, message |-> message]}
                    ELSE errorLog

\* process-docs.js lines 44-53 and 76-82: the scan of ./doc; a failure is
\* caught and logged for no file.
ReadDir ==
    /\ runPc = "readdir"
    /\ \E outcome \in {"listed", "ENOENT", "EACCES"} :
         IF outcome = "listed"
         THEN /\ files' = DocxFiles(docDir)
              /\ IF Len(DocxFiles(docDir)) = 0
                 THEN runPc' = "closePool" /\ fileIdx' = 0
                 ELSE runPc' = "process" /\ fileIdx' = 1
              /\ UNCHANGED <<thrownMsg, consoleErrors>>
         ELSE /\ LET message == IF outcome = "ENOENT"
                                THEN "The directory does not exist."
                                ELSE "A critical error occurred: EACCES"
                 IN /\ thrownMsg' = message
                    /\ LogErrorConsole(NotAvailable, message)
              /\ runPc' = "logRunError"
              /\ UNCHANGED <<files, fileIdx>>
    /\ UNCHANGED <<attempts, docOf, docDir, sentDir, store, postData, started, persisted, skipped,
                   errorLog, idleClients>>
    /\ Untouched

\* The mutant of NextFile: the loop ends after the first document.
NextFileAbort ==
    /\ runPc' = "closePool"
    /\ fileIdx' = fileIdx

\* for (const file of docxFiles), process-docs.js lines 55 and 75: the next
\* iteration, or the end of the loop.
NextFile ==
    IF fileIdx < Len(files)
    THEN runPc' = "process" /\ fileIdx' = fileIdx + 1
    ELSE runPc' = "closePool" /\ fileIdx' = fileIdx

\* catch (error) { await logError(file, error.message) }, process-docs.js
\* lines 72-74, up to the await inside logError
Catch(message) ==
    /\ thrownMsg' = message
    /\ LogErrorConsole(files[fileIdx], message)
    /\ runPc' = "logError"

\* await processDocxFile(filePath), process-docs.js lines 56-59
ProcessFile ==
    /\ runPc = "process"
    /\ started' = Append(started, fileIdx)
    /\ IF docOf[fileIdx].status = "returned"
       THEN /\ postData' = docOf[fileIdx].record
            /\ runPc' = "insert"
            /\ UNCHANGED <<thrownMsg, consoleErrors>>
       ELSE /\ Catch(docOf[fileIdx].error)
            /\ UNCHANGED postData
    /\ UNCHANGED <<attempts, docOf, files, docDir, sentDir, store, fileIdx, persisted, skipped,
                   errorLog, idleClients>>
    /\ Untouched

\* await insertPost(postData), process-docs.js lines 60-71 and database.js
\* lines 21-65: the connection or the query may fail; ON CONFLICT (slug) DO
\* NOTHING returns no row for a slug that is stored already.
InsertPost ==
    /\ runPc = "insert"
    /\ attempts' = Append(attempts, fileIdx)
    /\ \E outcome \in {"connect rejected", "query rejected", "answered"} :
         IF outcome = "answered"
         THEN /\ idleClients' = 1
              /\ UNCHANGED <<thrownMsg, consoleErrors>>
              /\ IF SlugTaken(store, postData.slug)
                 THEN /\ skipped' = skipped \cup {fileIdx}
                      /\ NextFile
                      /\ UNCHANGED <<store, persisted>>
                 ELSE /\ store' = store \cup {NewRow(store, postData)}
                      /\ persisted' = persisted \cup {fileIdx}
                      /\ runPc' = "rename"
                      /\ UNCHANGED <<skipped, fileIdx>>
         ELSE /\ Catch(outcome)
              /\ idleClients' = IF outcome = "query rejected" THEN 1 ELSE idleClients
              /\ UNCHANGED <<store, persisted, skipped, fileIdx>>
    /\ UNCHANGED <<docOf, files, docDir, sentDir, postData, started, errorLog>>
    /\ Untouched

\* A mutant of Without: the file stays in the directory.
WithoutNothing(listing, file) == listing

\* The directory once fs.rename has taken the file out of it,
\* process-docs.js line 65
Without(listing, file) == SelectSeq(listing, LAMBDA f : f # file)

\* await fs.rename(filePath, newFilePath), process-docs.js lines 64-66
MoveFile ==
    /\ runPc = "rename"
    /\ \E moved \in BOOLEAN :
         IF moved
         THEN /\ docDir' = Without(docDir, files[fileIdx])
              /\ sentDir' = sentDir \cup {files[fileIdx]}
              /\ NextFile
              /\ UNCHANGED <<thrownMsg, consoleErrors>>
         ELSE /\ Catch("rename rejected")
              /\ UNCHANGED <<docDir, sentDir, fileIdx>>
    /\ UNCHANGED <<attempts, docOf, files, store, postData, started, persisted, skipped,
                   errorLog, idleClients>>
    /\ Untouched

\* The await of logError in the catch of the loop settles, process-docs.js
\* lines 73-75
LogFileError ==
    /\ runPc = "logError"
    /\ LogErrorAppend(files[fileIdx], thrownMsg)
    /\ thrownMsg' = "none"
    /\ NextFile
    /\ UNCHANGED <<attempts, docOf, files, docDir, sentDir, store, postData, started, persisted,
                   skipped, consoleErrors, idleClients>>
    /\ Untouched

\* The await of logError in the outer catch settles, process-docs.js lines
\* 79-82
LogRunError ==
    /\ runPc = "logRunError"
    /\ LogErrorAppend(NotAvailable, thrownMsg)
    /\ thrownMsg' = "none"
    /\ runPc' = "closePool"
    /\ UNCHANGED <<attempts, docOf, files, docDir, sentDir, store, fileIdx, postData, started,
                   persisted, skipped, consoleErrors, idleClients>>
    /\ Untouched

\* finally { await closePool() }, process-docs.js lines 83-86
ClosePool ==
    /\ runPc = "closePool"
    /\ idleClients' = 0
    /\ runPc' = "finished"
    /\ UNCHANGED <<attempts, docOf, files, docDir, sentDir, store, fileIdx, postData, thrownMsg,
                   started, persisted, skipped, consoleErrors, errorLog>>
    /\ Untouched

\* pool.on('error', ...), database.js lines 12-15: an error on an idle client
\* ends the process, whatever main is waiting for.
PoolError ==
    /\ idleClients > 0
    /\ runPc \in {"process", "insert", "rename", "logError", "closePool"}
    /\ runPc' = "exit(-1)"
    /\ UNCHANGED <<attempts, docOf, files, docDir, sentDir, store, fileIdx, postData, thrownMsg,
                   started, persisted, skipped, consoleErrors, errorLog, idleClients>>
    /\ Untouched

MainStep ==
    \/ Start
    \/ ReadDir
    \/ ProcessFile
    \/ InsertPost
    \/ MoveFile
    \/ LogFileError
    \/ LogRunError
    \/ ClosePool

NextRun ==
    \/ MainStep
    \/ PoolError

SpecRun == InitRun /\ [][NextRun]_vars

\* Every await of main settles, so main goes on; nothing makes an idle client
\* fail.
FairSpecRun == SpecRun /\ WF_vars(MainStep)

-----------------------------------------------------------------------------
(* Claims about extractData and processDocxFile *)

TitleError == "Title could not be determined"
SlugError == "Slug could not be found"
MetaTitleError == "Meta Title could not be found"

\* extractData has run to its end: it threw or it returned.
ExtractDataEnded ==
    \/ pc \in {"render", "linkLoop", "ctaClass"}
    \/ pc = "done" /\ result.error # "extractRawText rejected"

\* extractData returned a record.
ExtractDataReturned ==
    \/ pc \in {"render", "linkLoop", "ctaClass"}
    \/ pc = "done" /\ result.error \in {"none", "convert rejected"}

NoMarkerLine == \A k \in 1..Len(lines) : ~IsSeoMarker(lines[k])

\* A line that may be the title: longer than 20 characters once trimmed,
\* not a byline, without "Medically reviewed".
MayBeTitle(line) ==
    /\ StrLen(Trim(line)) > 20
    /\ ~IsByline(Trim(line))
    /\ ~IncludesReviewed(line)

\* C1 as stated: a raw text without a marker line fails with the missing-slug
\* or the missing-metaTitle error, and with no other error.
C1_FailsOnSeoFieldOnly ==
    (ExtractDataEnded /\ NoMarkerLine)
        => (result.status = "thrown" /\ result.error \in {SlugError, MetaTitleError})

\* C1 amended: a raw text without a marker line always fails: with the title
\* error when no line may be the title, and with the missing-slug error
\* otherwise; never with the missing-metaTitle error, and it never returns.
C1_FailsOnTitleOrSlug ==
    (ExtractDataEnded /\ NoMarkerLine)
        => /\ result.status = "thrown"
           /\ result.error = IF \E k \in 1..Len(lines) : MayBeTitle(lines[k])
                             THEN SlugError ELSE TitleError

C1_Witness ==
    /\ ExtractDataEnded
    /\ NoMarkerLine
    /\ Len(lines) >= 2
    /\ result.error = TitleError

\* C2: when the document has an SEO block and extractData returns, the title
\* is the (trimmed) first line before the block that may be the title; and a
\* title once assigned is never assigned again.
C2_TitleIsFirstCandidate ==
    /\ [](  (ExtractDataReturned /\ seoBlockStartIndex # 0)
            => \E k \in 1..(seoBlockStartIndex - 1) :
                  /\ MayBeTitle(lines[k])
                  /\ \A m \in 1..(k - 1) : ~MayBeTitle(lines[m])
                  /\ metadata.title = Trim(lines[k])
                  /\ (result.status = "returned" => result.record.title = Trim(lines[k])) )
    /\ [][metadata.title # Undef => metadata'.title = metadata.title]_vars

C2_Witness ==
    /\ result.status = "returned"
    /\ seoBlockStartIndex >= 3
    /\ \E k, m \in 1..(seoBlockStartIndex - 1) :
          k < m /\ MayBeTitle(lines[k]) /\ MayBeTitle(lines[m])
                /\ Trim(lines[k]) # Trim(lines[m])

IsFieldLine(line) ==
    LET t == Trim(line)
    IN StartsWithAny(t, SlugLabels \cup MetaTitleLabels \cup MetaDescriptionLabels
                        \cup KeywordsLabels)

IsDescriptionLabel(line) == StartsWithAny(Trim(line), MetaDescriptionLabels)

\* The positions of the Meta Description lines of the SEO block.
DescriptionLabels ==
    IF seoBlockStartIndex = 0 THEN {}
    ELSE { k \in seoBlockStartIndex..Len(lines) : IsDescriptionLabel(lines[k]) }

RECURSIVE Continuation(_)
\* The lines from position k on, up to the next field line.
Continuation(k) ==
    IF k > Len(lines) \/ IsFieldLine(lines[k]) THEN <<>>
    ELSE <<Trim(lines[k])>> \o Continuation(k + 1)

\* The value of the label at k with the lines that continue it.
DescriptionRun(k) == <<FieldValue(Trim(lines[k]))>> \o Continuation(k + 1)

RECURSIVE AllRuns(_)
\* The runs of all the labels from position k on, in document order.
AllRuns(k) ==
    IF k > Len(lines) THEN <<>>
    ELSE IF IsDescriptionLabel(lines[k]) THEN DescriptionRun(k) \o AllRuns(k + 1)
    ELSE AllRuns(k + 1)

NoLineBreak(s) == \A k \in 1..Len(s) : s[k] # NL

\* C3 as stated: metaDescription is the single-space join of the value after
\* the Meta Description label and the lines that follow it up to the next
\* field line (of whichever label of the block, when there are several).
C3_DescriptionIsOneRun ==
    ExtractDataEnded
        => IF DescriptionLabels = {} THEN metadata.metaDescription = Undef
           ELSE /\ \E k \in DescriptionLabels :
                      metadata.metaDescription = Join(DescriptionRun(k), " ")
                /\ NoLineBreak(metadata.metaDescription)

\* C3 amended: metaDescription is the trimmed single-space join, in document
\* order, of the runs of every Meta Description label of the SEO block (the
\* value after the label, then the following lines up to the next field
\* line); nothing else is appended, and it holds no line break.
C3_DescriptionIsTrimmedJoinOfRuns ==
    ExtractDataEnded
        => IF DescriptionLabels = {} THEN metadata.metaDescription = Undef
           ELSE /\ metadata.metaDescription
                      = Trim(Join(AllRuns(seoBlockStartIndex), " "))
                /\ NoLineBreak(metadata.metaDescription)

C3_Witness ==
    /\ ExtractDataEnded
    /\ \E k \in DescriptionLabels :
          /\ Len(DescriptionRun(k)) = 2
          /\ k + 2 <= Len(lines)
          /\ IsFieldLine(lines[k + 2])
          /\ FieldValue(Trim(lines[k])) # <<>>
          /\ metadata.metaDescription = Join(DescriptionRun(k), " ")

\* C4: a record that extractData returns has a non-empty title, slug and
\* metaTitle; and a Slug or Meta Title label with an empty value makes the
\* extraction fail with the error it fails with when the field is undefined.
C4_RequiredFieldsNonEmpty ==
    /\ ExtractDataReturned
          => \A v \in {metadata.title, metadata.slug, metadata.metaTitle} :
                v # Undef /\ v # <<>>
    /\ result.status = "returned"
          => \A v \in {result.record.title, result.record.slug, result.record.metaTitle} :
                v # Undef /\ v # <<>>
    /\ (ExtractDataEnded /\ metadata.slug = <<>>)
          => /\ result.status = "thrown"
             /\ result.error = (IF metadata.title = Undef THEN TitleError ELSE SlugError)
    /\ (ExtractDataEnded /\ metadata.metaTitle = <<>>)
          => /\ result.status = "thrown"
             /\ result.error = (IF metadata.title = Undef THEN TitleError
                                ELSE IF metadata.slug \in {Undef, <<>>} THEN SlugError
                                ELSE MetaTitleError)

C4_Witness ==
    /\ ExtractDataEnded
    /\ metadata.title # Undef
    /\ metadata.slug # Undef /\ metadata.slug # <<>>
    /\ metadata.metaTitle = <<>>
    /\ result.error = MetaTitleError

\* C5: every record processDocxFile returns has a non-empty content.
C5_ContentNonEmpty == result.status = "returned" => Trim(result.content) # <<>>

-----------------------------------------------------------------------------
(* Claims about the post-processing *)

\* No anchor opens while another anchor is open.
NoNestedAnchor(s) == \A i \in 1..Len(s) : s[i] = AOpen => AnchorDepth(s, i - 1) = 0

\* No occurrence of a phrase of the rule list is left outside every anchor.
NoBarePhrase(s) ==
    \A k \in 1..Len(InternalLinks) : \A i \in 1..Len(s) :
        PhraseAt(s, i, InternalLinks[k].phrase) => AnchorDepth(s, i - 1) > 0

\* C6: the post-processing is idempotent: run on its own output (the link
\* wrapping, then the CTA class) it returns that output unchanged.
C6_Idempotent == (pc = "done" /\ pass = 2) => html = firstOutput

\* C7: the link wrapping never wraps a phrase that lies inside an anchor, so
\* what it returns holds no anchor inside another anchor, and it leaves no
\* occurrence of a phrase outside every anchor unwrapped.
C7_NoWrapInsideAnchor ==
    (pc = "done" /\ pass = 1 /\ result.status = "returned")
        => (NoNestedAnchor(html) /\ NoBarePhrase(html))


-----------------------------------------------------------------------------
(* Claims about the resolution of the body, part_000 *)

TitleAbsent == IndexOf(docHtml, title, 0) = -1

BoundaryErrors ==
    { "Could not find the start of the content after the title.",
      "Could not find title in HTML to determine content start." }

ResolveEnded == pc = "done" /\ variant \in {"A", "B"}

\* C8: when the title does not occur in the rendered HTML, the resolution
\* of the body ends at once with the error about the start boundary: no body
\* is returned, no end marker is scanned and nothing is post-processed.
C8_MissingTitleFails ==
    (variant \in {"A", "B"} /\ pc # "findStart" /\ TitleAbsent) =>
        /\ pc = "done"
        /\ result.status = "thrown"
        /\ result.error \in BoundaryErrors
        /\ bodyContent = <<>>
        /\ markerIdx = 0
        /\ contentEndIndex = -1
        /\ html = <<>>

\* C8, the case: a document with text and an end marker, but not the title.
C8_Witness ==
    /\ ResolveEnded
    /\ TitleAbsent
    /\ result.status = "thrown"
    /\ LastIndexOf(docHtml, <<"Meta Title:">>) > 0
    /\ IndexOf(docHtml, <<"Body text.">>, 0) # -1

\* The start boundary of the statement: right after the first ">" that
\* follows the first occurrence of the title.
ClaimedStart(h, t) == IndexOfGt(h, IndexOf(h, t, 0) + Len(t)) + 1

\* The markers of the list whose last occurrence lies after the start.
MarkersAfter(ms, h, start) == { k \in 1..Len(ms) : LastIndexOf(h, ms[k]) > start }

\* The text of h from offset a up to offset b, empty when b is not after a.
Between(h, a, b) == IF b <= a THEN <<>> ELSE SubSeq(h, a + 1, b)

\* The body of the statement for the first marker of the list that occurs
\* after the start.
ClaimedBody(ms, h, t) ==
    LET start == ClaimedStart(h, t)
        chosen == MinOf(MarkersAfter(ms, h, start))
        end == LastIndexOfLt(h, LastIndexOf(h, ms[chosen]))
    IN Trim(Between(h, start, end))

\* C9: when the title occurs and a marker of the list occurs after the start
\* boundary, the resolved body is the trimmed text from the start boundary to
\* the nearest "<" before the last occurrence of the first such marker, and
\* the resolution fails when that text is empty.
C9_BodyEndsAtChosenMarker ==
    (/\ ResolveEnded
     /\ ~TitleAbsent
     /\ MarkersAfter(EndMarkers(variant), docHtml, ClaimedStart(docHtml, title)) # {}) =>
        LET body == ClaimedBody(EndMarkers(variant), docHtml, title)
        IN IF body = <<>>
           THEN result.status = "thrown"
           ELSE result.status = "returned" /\ bodyContent = body

\* The example of the statement.
ExampleHtml ==
    <<"<h1", Gt, "My Title", "</h1", Gt, "<p", Gt, "Body text.", "</p", Gt,
      "<p", Gt, "Meta Title:", " X", "</p", Gt>>

ExampleHolds ==
    (ResolveEnded /\ docHtml = ExampleHtml /\ title = <<"My Title">>) =>
        /\ result.status = "returned"
        /\ result.content = <<"<p", Gt, "Body text.", "</p", Gt>>

-----------------------------------------------------------------------------
(* Claims about the orchestrator *)

\* The documents whose processing began.
Begun == { started[k] : k \in 1..Len(started) }

ErrorLogged(i) ==
    \E line \in consoleErrors : line.file = files[i] /\ line.message # "none"

\* Document i of the scan list has one of the three outcomes.
HasOutcome(i) == i \in persisted \/ i \in skipped \/ ErrorLogged(i)

Settled(i) == i \in Begun /\ HasOutcome(i)

\* The documents are taken in the order of the list.
InListOrder == \A k \in 1..Len(started) : started[k] = k

\* A document begins only when every document before it has its outcome.
OneAtATime == \A k \in 1..(Len(started) - 1) : HasOutcome(started[k])

\* A failed document is logged with the message of its own failure.
OwnMessageLogged ==
    \A k \in 1..(Len(started) - 1) :
        docOf[started[k]].status = "thrown" =>
            [file |-> files[started[k]], message |-> docOf[started[k]].error]
                \in consoleErrors

\* main got past the loop.
LoopLeft == runPc \in {"closePool", "finished"}

RunSafety ==
    /\ InListOrder
    /\ OneAtATime
    /\ OwnMessageLogged
    /\ (LoopLeft => \A i \in 1..Len(files) : Settled(i))

\* Document i is in the scan list and the loop runs.
Listed(i) == runPc \in {"process", "insert", "rename", "logError"} /\ i <= Len(files)

AttemptsFor(i) == Cardinality({ k \in 1..Len(attempts) : attempts[k] = i })

OneRowPerSlug == \A r1, r2 \in store : r1.slug = r2.slug => r1 = r2

\* A skipped document met a row with its slug, was tried once, and has
\* neither an error line nor a place in ./sent.
SkipIsQuiet ==
    \A i \in skipped :
        /\ docOf[i].status = "returned"
        /\ \E row \in store : row.slug = docOf[i].record.slug
        /\ i \notin persisted
        /\ ~ErrorLogged(i)
        /\ files[i] \notin sentDir
        /\ \E k \in 1..Len(docDir) : docDir[k] = files[i]
        /\ AttemptsFor(i) = 1

\* Of two documents with one slug in a run, the later is not persisted.
SecondIsSkipped ==
    \A i, j \in 1..Len(files) :
        (i < j /\ i \in persisted /\ j \in Begun /\ ~(j = fileIdx /\ runPc = "insert")
         /\ docOf[j].status = "returned" /\ docOf[j].record.slug = docOf[i].record.slug
         /\ AttemptsFor(j) = 1 /\ ~ErrorLogged(j))
            => j \in skipped

\* No row is ever changed or removed, and the step that reports a skip
\* leaves the table as it is.
RowsKept ==
    /\ store \subseteq store'
    /\ skipped' # skipped => store' = store

\* C11: the store holds at most one row per slug; an insert for a slug that
\* is there already changes no row and returns no identifier, and the
\* orchestrator reports the skip for that document without an error line,
\* without moving the file and without a second insert; of two documents
\* with one slug in a run the first is persisted and the second skipped.
C11_OneRecordPerSlug ==
    /\ [](OneRowPerSlug /\ SkipIsQuiet /\ SecondIsSkipped)
    /\ [][RowsKept]_vars

\* C11, the case: a run that ended with two documents of one slug, the first
\* persisted and the second skipped, and a third one skipped for the row of
\* an earlier run.
C11_Witness ==
    /\ runPc = "finished"
    /\ \E i, j, k \in 1..Len(files) :
         /\ i < j
         /\ docOf[i].record.slug = docOf[j].record.slug
         /\ i \in persisted
         /\ j \in skipped
         /\ k \in skipped
         /\ docOf[k].record.slug = <<"slug-a">>
         /\ StoredBefore \subseteq store

InDocDir(i) == \E k \in 1..Len(docDir) : docDir[k] = files[i]

\* Document i is out of ./doc and in ./sent.
Moved(i) == files[i] \in sentDir /\ ~InDocDir(i)

\* Document i is where it was: in ./doc and not in ./sent.
InPlace(i) == InDocDir(i) /\ files[i] \notin sentDir

MoveFailureLogged(i) ==
    [file |-> files[i], message |-> "rename rejected"] \in consoleErrors

-----------------------------------------------------------------------------
(* Claims about the lines before the SEO-block start *)

\* The loop over the lines before the SEO-block start has ended.
TopMatterDone == pc \in {"seoLoop", "validate", "render", "linkLoop", "ctaClass"}
                 \/ (pc = "done" /\ result.error # "extractRawText rejected")

\* The indices of the lines before the SEO-block start that are bylines.
BylinesBefore ==
    { k \in 1..TopLimit(lines, seoBlockStartIndex) : IsByline(Trim(lines[k])) }

\* C13: when several lines before the SEO-block start are bylines, the
\* author is the first of them in document order.
C13_AuthorIsFirstByline ==
    (TopMatterDone /\ BylinesBefore # {}) =>
        /\ metadata.author = Trim(lines[MinOf(BylinesBefore)])
        /\ (result.status = "returned" =>
                result.record.author = Trim(lines[MinOf(BylinesBefore)]))

\* The number of lines before the SEO-block start.
RegionEnd == IF seoBlockStartIndex = 0 THEN Len(lines) ELSE seoBlockStartIndex - 1

\* The index of the Title line: the first line of the region that may be
\* the title, 0 when there is none.
TitleIndex ==
    LET candidates == { k \in 1..RegionEnd : MayBeTitle(lines[k]) }
    IN IF candidates = {} THEN 0 ELSE MinOf(candidates)

RECURSIVE ContentFrom(_)
\* The lines of the region from index k on that are no bylines, as they are.
ContentFrom(k) ==
    IF k > RegionEnd THEN <<>>
    ELSE IF IsByline(Trim(lines[k])) THEN ContentFrom(k + 1)
    ELSE <<lines[k]>> \o ContentFrom(k + 1)

\* The content of the statement: the lines after the Title line.
ClaimedContent == IF TitleIndex = 0 THEN <<>> ELSE ContentFrom(TitleIndex + 1)

====
